---- MODULE Spec2Model ----
(***************************************************************************)
(* State-machine model of the forum backend: the vote handlers             *)
(* (voteThread, voteComment), the message handlers (sendMessage,           *)
(* getMessages, markAsRead, deleteMessage), the Socket.IO connection       *)
(* handler and createComment.                                              *)
(*                                                                         *)
(* Every handler is an async function: each `await` on the document store  *)
(* is a point where other requests may run, so a handler is modelled as    *)
(* one action per awaited store call, together with the synchronous code   *)
(* that follows it up to the next await.                                   *)
(*                                                                         *)
(* doc.save() is modelled as Mongoose performs it: only the modified paths *)
(* are written ($set of a changed number, $push of a pushed array element, *)
(* $set of a reassigned array, $set of one array position), and the        *)
(* version key __v guards the two updates that address array positions.    *)
(***************************************************************************)
EXTENDS Integers, Sequences, FiniteSets, TLC

\* Number of requests, connections and socket events issued in one behaviour.
MaxReqs == 3

\* Number of completed requests whose outcome the response log retains.
LogLen == 2

\* Number of createComment requests issued in one behaviour.
MaxComments == 2

\* Where messages are also read, sendMessage is among the first MaxSends requests.
MaxSends == 2

\* Registered users (req.user.id of an authenticated request).
UserIds == {"u1", "u2"}
\* An id that passes validation but names no document.
NoUser == "u0"

ThreadIds == {"t1", "t0"}
\* req.body.categoryId / req.params.id of the category routes; g0 names none
\* and g3 none before a category was created.
CategoryIds == {"g1", "g2", "g3", "g0"}
CommentIds == {"c1", "c0"}

\* req.body.voteType as a client may send it.
VoteTypes == {"up", "down", "sideways"}

\* req.body.content as a client may send it; the empty one fails messageValidation.
Contents == {"", "hello"}

\* req.body.parentId of createComment: absent, or the id of a comment.
ParentIds == {"none"} \cup CommentIds

\* req.body.mentions of createComment: absent or empty, a user and an id that
\* names no user, one user twice.
MentionLists == {<<>>, <<"u2", "u0">>, <<"u1", "u1">>}

\* roomId as a client may send it with 'join-room' and 'leave-room': the name of
\* a user's room and the name of a thread's room.
RoomIds == {"user-u1", "t1"}

\* req.params.id of the message routes: two stored messages and an id that names none.
MessageIds == {1, 2, 3}

VARIABLES
    users,          \* User collection: id -> [chat]
    categories,     \* Category collection: id -> [name, slug, threadsCount]
    threads,        \* Thread collection: id -> document
    comments,       \* Comment collection: id -> document
    notifications,  \* Notification collection, in creation order
    messages,       \* Message collection, in creation order
    emitted,        \* 'new-message' events handed to io.to(room).emit, in order
    conns,          \* Socket.IO connections, in the order they were made
    delivered,      \* which event of emitted reached which connection
    reqs,           \* the requests in flight, in the order they arrived
    started,        \* number of requests, connections and socket events so far
    log             \* the last LogLen completed requests with their responses

vars == <<users, categories, threads, comments, notifications, messages, emitted, conns, delivered,
          reqs, started, log>>

\* The server's connections and what was delivered to them.
sockets == <<conns, delivered>>

----------------------------------------------------------------------------
\* Documents

\* A request's local document before findById has returned one.
NullDoc == [owner |-> NoUser, upvotes |-> 0, downvotes |-> 0, votedBy |-> <<>>, v |-> 0]

\* threadSchema / commentSchema defaults: upvotes 0, downvotes 0, votedBy [].
\* owner is Thread.createdBy, resp. Comment.userId; v is the version key __v.
NewDoc(owner) == [owner |-> owner, upvotes |-> 0, downvotes |-> 0, votedBy |-> <<>>, v |-> 0]

\* threadSchema: a thread with its comment counter and its lock.
NewThread(owner, category) ==
    NewDoc(owner) @@ [category |-> category, commentsCount |-> 0, isLocked |-> FALSE,
                      bookmarks |-> <<>>]

\* commentSchema: a comment of a thread, parentId "none" (null) when top-level.
NewComment(owner, threadId, parentId) ==
    NewDoc(owner) @@ [threadId |-> threadId, parentId |-> parentId]

\* The name in lower case.
LowerCase(name) ==
    CASE name = "Cat one" -> "cat one"
      [] name = "Cat two" -> "cat two"
      [] name = "Cat three" -> "cat three"
      [] OTHER -> name

\* The pre('save') hook: name.toLowerCase().replace(/ /g, '-').replace(/[^\w-]+/g, '')
Slug(name) ==
    CASE LowerCase(name) = "cat one" -> "cat-one"
      [] LowerCase(name) = "cat two" -> "cat-two"
      [] LowerCase(name) = "cat three" -> "cat-three"
      [] OTHER -> LowerCase(name)

\* A category as Category.create stores it (threadsCount defaults to 0).
NewCategory(name, threadsCount) ==
    [name |-> name, slug |-> Slug(name), threadsCount |-> threadsCount]

\* A request slot before and after it has run.
NullReq ==
    [op |-> "none", user |-> NoUser, id |-> "none", voteType |-> "none",
     pc |-> "done", status |-> 0, found |-> FALSE,
     before |-> NullDoc, doc |-> NullDoc, kind |-> "none", idx |-> 0,
     notified |-> FALSE, upvotes |-> 0, downvotes |-> 0,
     receiver |-> NoUser, content |-> "", msg |-> 0,
     result |-> {}, total |-> 0, push |-> FALSE, deleted |-> FALSE,
     parentId |-> "none", mentions |-> <<>>, k |-> 0, now |-> 0, cid |-> "none", target |-> NoUser,
     alone |-> FALSE]

----------------------------------------------------------------------------
\* The vote computation shared by voteThread and voteComment

\* votedBy.find(vote => vote.user.toString() === req.user.id): the position of
\* the first record of the user, 0 when there is none.
FindVote(votedBy, u) ==
    IF \E i \in 1..Len(votedBy) : votedBy[i].user = u
    THEN CHOOSE i \in 1..Len(votedBy) :
            /\ votedBy[i].user = u
            /\ \A j \in 1..(i - 1) : votedBy[j].user # u
    ELSE 0

\* votedBy.filter(vote => vote.user.toString() !== req.user.id)
FilterVotes(votedBy, u) == SelectSeq(votedBy, LAMBDA r : r.user # u)

\* ['up', 'down'].includes(voteType)
ValidVoteType_Any(voteType) == TRUE

ValidVoteType(voteType) == voteType \in {"up", "down"}

\* What the handler did to its local document: "new", "retract" or "flip".
VoteKind(doc, u, voteType) ==
    LET i == FindVote(doc.votedBy, u) IN
    IF i = 0 THEN "new"
    ELSE IF doc.votedBy[i].voteType = voteType THEN "retract"
    ELSE "flip"

\* ApplyVote with a retraction that removes the record and keeps the counter.
ApplyVote_KeepCounter(doc, u, voteType) ==
    LET i == FindVote(doc.votedBy, u) IN
    IF i # 0 THEN
        IF doc.votedBy[i].voteType = voteType THEN
            [doc EXCEPT !.votedBy = FilterVotes(@, u)]
        ELSE
            IF voteType = "up"
            THEN [doc EXCEPT !.votedBy[i].voteType = voteType,
                             !.upvotes = @ + 1, !.downvotes = @ - 1]
            ELSE [doc EXCEPT !.votedBy[i].voteType = voteType,
                             !.upvotes = @ - 1, !.downvotes = @ + 1]
    ELSE
        IF voteType = "up"
        THEN [doc EXCEPT !.votedBy = Append(@, [user |-> u, voteType |-> voteType]),
                         !.upvotes = @ + 1]
        ELSE [doc EXCEPT !.votedBy = Append(@, [user |-> u, voteType |-> voteType]),
                         !.downvotes = @ + 1]

\* The local document after the synchronous part of the handler.
ApplyVote(doc, u, voteType) ==
    LET i == FindVote(doc.votedBy, u) IN
    IF i # 0 THEN
        IF doc.votedBy[i].voteType = voteType THEN
            \* Remove vote
            IF voteType = "up"
            THEN [doc EXCEPT !.votedBy = FilterVotes(@, u), !.upvotes = @ - 1]
            ELSE [doc EXCEPT !.votedBy = FilterVotes(@, u), !.downvotes = @ - 1]
        ELSE
            \* Change vote
            IF voteType = "up"
            THEN [doc EXCEPT !.votedBy[i].voteType = voteType,
                             !.upvotes = @ + 1, !.downvotes = @ - 1]
            ELSE [doc EXCEPT !.votedBy[i].voteType = voteType,
                             !.upvotes = @ - 1, !.downvotes = @ + 1]
    ELSE
        \* New vote
        IF voteType = "up"
        THEN [doc EXCEPT !.votedBy = Append(@, [user |-> u, voteType |-> voteType]),
                         !.upvotes = @ + 1]
        ELSE [doc EXCEPT !.votedBy = Append(@, [user |-> u, voteType |-> voteType]),
                         !.downvotes = @ + 1]

\* NotifyUpvote without the comparison of the owner with the voter.
NotifyUpvote_OwnerToo(doc, u, voteType) ==
    /\ FindVote(doc.votedBy, u) = 0
    /\ voteType = "up"

\* Whether the handler creates the upvote notification.
NotifyUpvote(doc, u, voteType) ==
    /\ FindVote(doc.votedBy, u) = 0
    /\ voteType = "up"
    /\ doc.owner # u

\* Whether doc.save() is rejected: the reassigned array (retract) and the
\* positional $set (flip) are sent with the version read; the $push is not.
SaveConflict(stored, r) ==
    /\ r.kind \in {"retract", "flip"}
    /\ stored.v # r.doc.v

\* SaveVote with a flip that writes the raised counter only.
SaveVote_FlipOneCounter(stored, r) ==
    CASE r.kind = "new" ->
            IF r.voteType = "up"
            THEN [stored EXCEPT !.votedBy = Append(@, [user |-> r.user, voteType |-> r.voteType]),
                                !.upvotes = r.doc.upvotes, !.v = @ + 1]
            ELSE [stored EXCEPT !.votedBy = Append(@, [user |-> r.user, voteType |-> r.voteType]),
                                !.downvotes = r.doc.downvotes, !.v = @ + 1]
      [] r.kind = "retract" ->
            IF r.voteType = "up"
            THEN [stored EXCEPT !.votedBy = r.doc.votedBy,
                                !.upvotes = r.doc.upvotes, !.v = @ + 1]
            ELSE [stored EXCEPT !.votedBy = r.doc.votedBy,
                                !.downvotes = r.doc.downvotes, !.v = @ + 1]
      [] OTHER ->
            IF r.voteType = "up"
            THEN [stored EXCEPT !.votedBy[r.idx].voteType = r.voteType,
                                !.upvotes = r.doc.upvotes]
            ELSE [stored EXCEPT !.votedBy[r.idx].voteType = r.voteType,
                                !.downvotes = r.doc.downvotes]

\* The stored document after doc.save() of request r was applied to it.
SaveVote(stored, r) ==
    CASE r.kind = "new" ->
            \* $push votedBy, $set of the one counter touched, $inc __v
            IF r.voteType = "up"
            THEN [stored EXCEPT !.votedBy = Append(@, [user |-> r.user, voteType |-> r.voteType]),
                                !.upvotes = r.doc.upvotes, !.v = @ + 1]
            ELSE [stored EXCEPT !.votedBy = Append(@, [user |-> r.user, voteType |-> r.voteType]),
                                !.downvotes = r.doc.downvotes, !.v = @ + 1]
      [] r.kind = "retract" ->
            \* $set votedBy (whole array), $set of the one counter touched, $inc __v
            IF r.voteType = "up"
            THEN [stored EXCEPT !.votedBy = r.doc.votedBy,
                                !.upvotes = r.doc.upvotes, !.v = @ + 1]
            ELSE [stored EXCEPT !.votedBy = r.doc.votedBy,
                                !.downvotes = r.doc.downvotes, !.v = @ + 1]
      [] OTHER ->
            \* $set votedBy.<idx>.voteType, $set of both counters
            [stored EXCEPT !.votedBy[r.idx].voteType = r.voteType,
                           !.upvotes = r.doc.upvotes, !.downvotes = r.doc.downvotes]

----------------------------------------------------------------------------
\* Notification records

UpvoteNotification(type, owner, u, id) ==
    [userId |-> owner, type |-> type, fromUserId |-> u, ref |-> id]

----------------------------------------------------------------------------
\* The state after construction: two users, category g1 with one thread of u1
\* that has one top-level comment of u2, an empty category g2, no votes.

Init ==
    /\ users = [u \in UserIds |-> [chat |-> (u # "u2")]]
    /\ categories = ("g1" :> NewCategory("Cat one", 1)) @@ ("g2" :> NewCategory("Cat two", 0))
    /\ threads = [t \in {"t1"} |-> [NewThread("u1", "g1") EXCEPT !.commentsCount = 1]]
    /\ comments = [c \in {"c1"} |-> NewComment("u2", "t1", "none")]
    /\ notifications = <<>>
    /\ messages = <<>>
    /\ emitted = <<>>
    /\ conns = <<>>
    /\ delivered = {}
    /\ reqs = <<>>
    /\ started = 0
    /\ log = <<>>

----------------------------------------------------------------------------
\* Requests in flight and the response log

\* The sequence s without its i-th element.
RemoveAt(s, i) == SubSeq(s, 1, i - 1) \o SubSeq(s, i + 1, Len(s))

\* The response log after request record e completed.
Logged(e) ==
    LET l == Append(log, e) IN
    IF Len(l) > LogLen THEN SubSeq(l, Len(l) - LogLen + 1, Len(l)) ELSE l

\* The requests in flight once another request has arrived beside them.
Overlapped == [k \in 1..Len(reqs) |-> [reqs[k] EXCEPT !.alone = FALSE]]

\* A request arrives: it completes at once when it already carries a response,
\* otherwise it waits at its next await.
Arrive(r) ==
    /\ started < MaxReqs
    /\ started' = started + 1
    /\ IF r.pc = "done"
       THEN /\ log' = Logged(r)
            /\ reqs' = Overlapped
       ELSE /\ reqs' = Append(Overlapped, r)
            /\ log' = log

\* The i-th request in flight completes as record r.
Complete(i, r) ==
    /\ reqs' = RemoveAt(reqs, i)
    /\ log' = Logged(r)
    /\ started' = started

----------------------------------------------------------------------------
\* Vote handlers

\* The request record after findById and the synchronous code after it.
VoteFound(op, u, id, voteType, coll) ==
    IF id \notin DOMAIN coll THEN
        [NullReq EXCEPT !.op = op, !.user = u, !.id = id, !.voteType = voteType,
                        !.status = 404, !.alone = (reqs = <<>>)]
    ELSE IF ~ValidVoteType(voteType) THEN
        [NullReq EXCEPT !.op = op, !.user = u, !.id = id, !.voteType = voteType,
                        !.status = 400, !.found = TRUE, !.before = coll[id],
                        !.alone = (reqs = <<>>)]
    ELSE
        [NullReq EXCEPT !.op = op, !.user = u, !.id = id, !.voteType = voteType,
                        !.found = TRUE, !.before = coll[id],
                        !.doc = ApplyVote(coll[id], u, voteType),
                        !.kind = VoteKind(coll[id], u, voteType),
                        !.idx = FindVote(coll[id].votedBy, u),
                        !.pc = IF NotifyUpvote(coll[id], u, voteType)
                               THEN "notify" ELSE "save",
                        !.alone = (reqs = <<>>)]

\* Whether doc.save() rejects: the update matches no document, because the
\* document was deleted since it was loaded or because its version moved on.
SaveFails(coll, r) ==
    \/ r.id \notin DOMAIN coll
    \/ SaveConflict(coll[r.id], r)

\* The request record after doc.save() and the response.
VoteSaved(r, coll) ==
    IF SaveFails(coll, r)
    THEN [r EXCEPT !.pc = "done", !.status = 500]
    ELSE [r EXCEPT !.pc = "done", !.status = 200,
                   !.upvotes = r.doc.upvotes, !.downvotes = r.doc.downvotes]

\* voteThread up to its first await after Thread.findById.
voteThread_find(u, id, voteType) ==
    /\ Arrive(VoteFound("voteThread", u, id, voteType, threads))
    /\ UNCHANGED <<categories, sockets, users, threads, comments, notifications, messages, emitted>>

\* await Notification.create({... type: 'thread_upvote' ...})
voteThread_notify(i) ==
    /\ reqs[i].op = "voteThread" /\ reqs[i].pc = "notify"
    /\ notifications' = Append(notifications,
          UpvoteNotification("thread_upvote", reqs[i].doc.owner, reqs[i].user, reqs[i].id))
    /\ reqs' = [reqs EXCEPT ![i].pc = "save", ![i].notified = TRUE]
    /\ UNCHANGED <<categories, sockets, users, threads, comments, messages, emitted, started, log>>

\* await thread.save(), then res.json({upvotes, downvotes})
voteThread_save(i) ==
    /\ reqs[i].op = "voteThread" /\ reqs[i].pc = "save"
    /\ threads' = IF SaveFails(threads, reqs[i]) THEN threads
                  ELSE [threads EXCEPT ![reqs[i].id] = SaveVote(@, reqs[i])]
    /\ Complete(i, VoteSaved(reqs[i], threads))
    /\ UNCHANGED <<categories, sockets, users, comments, notifications, messages, emitted>>

\* voteComment up to its first await after Comment.findById.
voteComment_find(u, id, voteType) ==
    /\ Arrive(VoteFound("voteComment", u, id, voteType, comments))
    /\ UNCHANGED <<categories, sockets, users, threads, comments, notifications, messages, emitted>>

\* await Notification.create({... type: 'comment_upvote' ...})
voteComment_notify(i) ==
    /\ reqs[i].op = "voteComment" /\ reqs[i].pc = "notify"
    /\ notifications' = Append(notifications,
          UpvoteNotification("comment_upvote", reqs[i].doc.owner, reqs[i].user, reqs[i].id))
    /\ reqs' = [reqs EXCEPT ![i].pc = "save", ![i].notified = TRUE]
    /\ UNCHANGED <<categories, sockets, users, threads, comments, messages, emitted, started, log>>

\* await comment.save(), then res.json({upvotes, downvotes})
voteComment_save(i) ==
    /\ reqs[i].op = "voteComment" /\ reqs[i].pc = "save"
    /\ comments' = IF SaveFails(comments, reqs[i]) THEN comments
                   ELSE [comments EXCEPT ![reqs[i].id] = SaveVote(@, reqs[i])]
    /\ Complete(i, VoteSaved(reqs[i], comments))
    /\ UNCHANGED <<categories, sockets, users, threads, notifications, messages, emitted>>

\* thread.bookmarks.includes(req.user.id)
IsBookmarked(bookmarks, u) == \E k \in 1..Len(bookmarks) : bookmarks[k] = u

\* thread.bookmarks.filter(id => id.toString() !== req.user.id)
FilterBookmarks(bookmarks, u) == SelectSeq(bookmarks, LAMBDA b : b # u)

\* The request record of bookmarkThread after Thread.findById and the
\* synchronous change of thread.bookmarks on the copy read.
BookmarkFound(u, id) ==
    LET r == [NullReq EXCEPT !.op = "bookmarkThread", !.user = u, !.id = id,
                             !.alone = (reqs = <<>>)]
    IN IF id \notin DOMAIN threads THEN [r EXCEPT !.status = 404]
       ELSE IF IsBookmarked(threads[id].bookmarks, u)
            THEN [r EXCEPT !.found = TRUE, !.pc = "save", !.kind = "unbookmark",
                           !.doc = [threads[id] EXCEPT
                                       !.bookmarks = FilterBookmarks(@, u)]]
       ELSE [r EXCEPT !.found = TRUE, !.pc = "save", !.kind = "bookmark",
                      !.doc = [threads[id] EXCEPT !.bookmarks = Append(@, u)]]

\* Whether thread.save() of bookmarkThread rejects: the document is gone, or
\* the reassigned array is sent with the version read and the version moved on.
BookmarkFails(coll, r) ==
    \/ r.id \notin DOMAIN coll
    \/ r.kind = "unbookmark" /\ coll[r.id].v # r.doc.v

\* The stored thread after thread.save() of bookmarkThread: $set bookmarks (the
\* whole array) or $push of the user, and $inc __v.
SaveBookmark(stored, r) ==
    IF r.kind = "unbookmark"
    THEN [stored EXCEPT !.bookmarks = r.doc.bookmarks, !.v = @ + 1]
    ELSE [stored EXCEPT !.bookmarks = Append(@, r.user), !.v = @ + 1]

\* bookmarkThread up to its first await after Thread.findById.
bookmarkThread_find(u, id) ==
    /\ Arrive(BookmarkFound(u, id))
    /\ UNCHANGED <<categories, sockets, users, threads, comments, notifications, messages, emitted>>

\* await thread.save(), then res.json({isBookmarked})
bookmarkThread_save(i) ==
    /\ reqs[i].op = "bookmarkThread" /\ reqs[i].pc = "save"
    /\ threads' = IF BookmarkFails(threads, reqs[i]) THEN threads
                  ELSE [threads EXCEPT ![reqs[i].id] = SaveBookmark(@, reqs[i])]
    /\ Complete(i, [reqs[i] EXCEPT !.pc = "done",
                       !.status = IF BookmarkFails(threads, reqs[i]) THEN 500 ELSE 200])
    /\ UNCHANGED <<categories, sockets, users, comments, notifications, messages, emitted>>

Next ==
    \/ \E u \in UserIds, id \in ThreadIds, vt \in VoteTypes : voteThread_find(u, id, vt)
    \/ \E i \in 1..Len(reqs) : voteThread_notify(i)
    \/ \E i \in 1..Len(reqs) : voteThread_save(i)
    \/ \E u \in UserIds, id \in CommentIds, vt \in VoteTypes : voteComment_find(u, id, vt)
    \/ \E i \in 1..Len(reqs) : voteComment_notify(i)
    \/ \E i \in 1..Len(reqs) : voteComment_save(i)
    \/ \E u \in UserIds, id \in ThreadIds : bookmarkThread_find(u, id)
    \/ \E i \in 1..Len(reqs) : bookmarkThread_save(i)

Spec == Init /\ [][Next]_vars

\* The store after the first upvotes of u1 and u2 on thread t1 ran concurrently:
\* both read the thread without votes, each pushed its record and wrote
\* upvotes = 1; u2's request notified the owner u1.
RacedThread ==
    [[NewThread("u1", "g1") EXCEPT !.commentsCount = 1] EXCEPT
        !.votedBy = <<[user |-> "u1", voteType |-> "up"], [user |-> "u2", voteType |-> "up"]>>,
        !.upvotes = 1,
        !.v = 2]

RacedInit ==
    /\ users = [u \in UserIds |-> [chat |-> (u # "u2")]]
    /\ categories = ("g1" :> NewCategory("Cat one", 1)) @@ ("g2" :> NewCategory("Cat two", 0))
    /\ threads = [t \in {"t1"} |-> RacedThread]
    /\ comments = [c \in {"c1"} |-> NewComment("u2", "t1", "none")]
    /\ notifications = <<UpvoteNotification("thread_upvote", "u1", "u2", "t1")>>
    /\ messages = <<>>
    /\ emitted = <<>>
    /\ conns = <<>>
    /\ delivered = {}
    /\ reqs = <<>>
    /\ started = 0
    /\ log = <<>>

\* The vote handlers, started from that store.
RacedSpec == RacedInit /\ [][Next]_vars

----------------------------------------------------------------------------
\* Rooms and delivery

\* `user-${userId}`: the name of a user's room.
UserRoom(u) == "user-" \o u

\* Every connected socket, whatever rooms it is in.
InRoom_AllConnected(room) == {c \in 1..Len(conns) : conns[c].connected}

\* The connections that are members of a room.
InRoom(room) == {c \in 1..Len(conns) : conns[c].connected /\ room \in conns[c].rooms}

\* emit hands the event to the sockets that are in the room at that moment;
\* nothing is kept for sockets that join later.
Deliveries(cs, k) == {[conn |-> c, event |-> k] : c \in cs}

----------------------------------------------------------------------------
\* Message pipeline

\* messageValidation: content has 1 to 1000 characters.
ValidContent(content) == content # ""

\* receiver.notificationPrefs.chat, with the check dropped.
AcceptsMessages_Always(receiver) == TRUE

\* receiver.notificationPrefs.chat
AcceptsMessages(receiver) == receiver.chat

\* Message.create({sender, receiver, content, ...}) with the schema defaults.
NewMessage(id, sender, receiver, content) ==
    [id |-> id, sender |-> sender, receiver |-> receiver, content |-> content,
     read |-> FALSE, readAt |-> 0, isDeleted |-> FALSE, deletedBy |-> <<>>]

\* Notification.create({userId: receiverId, type: 'new_message', ...})
MessageNotification(receiver, sender, msg) ==
    [userId |-> receiver, type |-> "new_message", fromUserId |-> sender, ref |-> msg]

\* MessageChecked with the handler going to the notification first.
MessageChecked_NotifyFirst(u, receiverId, content) ==
    LET r == [NullReq EXCEPT !.op = "sendMessage", !.user = u, !.receiver = receiverId,
                             !.content = content]
    IN IF ~ValidContent(content) THEN [r EXCEPT !.status = 400]
       ELSE IF receiverId \notin DOMAIN users THEN [r EXCEPT !.status = 404]
       ELSE IF ~AcceptsMessages(users[receiverId]) THEN [r EXCEPT !.status = 403]
       ELSE [r EXCEPT !.found = TRUE, !.pc = "notify"]

\* The request record after validationResult and User.findById.
MessageChecked(u, receiverId, content) ==
    LET r == [NullReq EXCEPT !.op = "sendMessage", !.user = u, !.receiver = receiverId,
                             !.content = content]
    IN IF ~ValidContent(content) THEN [r EXCEPT !.status = 400]
       ELSE IF receiverId \notin DOMAIN users THEN [r EXCEPT !.status = 404]
       ELSE IF ~AcceptsMessages(users[receiverId]) THEN [r EXCEPT !.status = 403]
       ELSE [r EXCEPT !.found = TRUE, !.pc = "create"]

\* sendMessage up to its first await after User.findById.
sendMessage_find(u, receiverId, content) ==
    /\ Arrive(MessageChecked(u, receiverId, content))
    /\ UNCHANGED <<categories, sockets, users, threads, comments, notifications, messages, emitted>>

\* await Message.create(...)
sendMessage_create(i) ==
    /\ reqs[i].op = "sendMessage" /\ reqs[i].pc = "create"
    /\ messages' = Append(messages,
          NewMessage(Len(messages) + 1, reqs[i].user, reqs[i].receiver, reqs[i].content))
    /\ reqs' = [reqs EXCEPT ![i].pc = "notify", ![i].msg = Len(messages) + 1]
    /\ UNCHANGED <<categories, sockets, users, threads, comments, notifications, emitted, started, log>>

\* await Notification.create(...)
sendMessage_notify(i) ==
    /\ reqs[i].op = "sendMessage" /\ reqs[i].pc = "notify"
    /\ notifications' = Append(notifications,
          MessageNotification(reqs[i].receiver, reqs[i].user, reqs[i].msg))
    /\ reqs' = [reqs EXCEPT ![i].pc = "emit", ![i].notified = TRUE]
    /\ UNCHANGED <<categories, sockets, users, threads, comments, messages, emitted, started, log>>

\* await Notification.create(...) rejected by the store: the rejection leaves the
\* handler (there is no try/catch around it), asyncHandler passes it to
\* errorHandler, which responds 500.
sendMessage_notifyFails(i) ==
    /\ reqs[i].op = "sendMessage" /\ reqs[i].pc = "notify"
    /\ Complete(i, [reqs[i] EXCEPT !.pc = "done", !.status = 500])
    /\ UNCHANGED <<categories, sockets, users, threads, comments, notifications, messages, emitted>>

\* await Message.findById(message._id).populate(...), then
\* io.to(`user-${receiverId}`).emit('new-message', ...) and res.status(201)
sendMessage_emit(i) ==
    /\ reqs[i].op = "sendMessage" /\ reqs[i].pc = "emit"
    /\ emitted' = Append(emitted,
          [room |-> UserRoom(reqs[i].receiver), event |-> "new-message",
           message |-> reqs[i].msg, sender |-> reqs[i].user])
    /\ delivered' = delivered \cup Deliveries(InRoom(UserRoom(reqs[i].receiver)),
                                              Len(emitted) + 1)
    /\ conns' = conns
    /\ Complete(i, [reqs[i] EXCEPT !.pc = "done", !.status = 201])
    /\ UNCHANGED <<categories, users, threads, comments, notifications, messages>>

\* Message.find({$or: [{sender: a, receiver: b}, {sender: b, receiver: a}],
\* isDeleted: false}), restricted to what the sender sent.
Conversation_SentOnly(msgs, a, b) ==
    {msgs[k].id : k \in {j \in 1..Len(msgs) :
        /\ msgs[j].sender = a /\ msgs[j].receiver = b
        /\ ~msgs[j].isDeleted}}

\* Message.find({$or: [{sender: a, receiver: b}, {sender: b, receiver: a}],
\* isDeleted: false}): the ids of the messages returned.  The page holds 50
\* messages by default, more than one behaviour creates.
Conversation(msgs, a, b) ==
    {msgs[k].id : k \in {j \in 1..Len(msgs) :
        /\ \/ msgs[j].sender = a /\ msgs[j].receiver = b
           \/ msgs[j].sender = b /\ msgs[j].receiver = a
        /\ ~msgs[j].isDeleted}}

\* Message.updateMany({sender: userId, receiver: currentUserId, read: false},
\* {read: true, readAt: Date.now()}); the clock is the number of requests so far.
MarkConversationRead(msgs, currentUserId, userId, now) ==
    [k \in 1..Len(msgs) |->
        IF msgs[k].sender = userId /\ msgs[k].receiver = currentUserId /\ ~msgs[k].read
        THEN [msgs[k] EXCEPT !.read = TRUE, !.readAt = now]
        ELSE msgs[k]]

\* The request record of getMessages after User.findById(userId).
OtherUserChecked(u, userId) ==
    LET r == [NullReq EXCEPT !.op = "getMessages", !.user = u, !.receiver = userId]
    IN IF userId \notin DOMAIN users THEN [r EXCEPT !.status = 404]
       ELSE [r EXCEPT !.found = TRUE, !.pc = "query"]

\* getMessages up to its first await after User.findById.
getMessages_find(u, userId) ==
    /\ Arrive(OtherUserChecked(u, userId))
    /\ UNCHANGED <<categories, sockets, users, threads, comments, notifications, messages, emitted>>

\* await Message.find({...}), then Date.now() for the arguments of updateMany
getMessages_query(i) ==
    /\ reqs[i].op = "getMessages" /\ reqs[i].pc = "query"
    /\ reqs' = [reqs EXCEPT ![i].pc = "mark", ![i].now = started,
                            ![i].result = Conversation(messages, reqs[i].user, reqs[i].receiver)]
    /\ UNCHANGED <<categories, sockets, users, threads, comments, notifications, messages, emitted,
                   started, log>>

\* await Message.updateMany({...}, {read: true, readAt: Date.now()})
getMessages_mark(i) ==
    /\ reqs[i].op = "getMessages" /\ reqs[i].pc = "mark"
    /\ messages' = MarkConversationRead(messages, reqs[i].user, reqs[i].receiver, reqs[i].now)
    /\ reqs' = [reqs EXCEPT ![i].pc = "count", ![i].now = 0]
    /\ UNCHANGED <<categories, sockets, users, threads, comments, notifications, emitted, started, log>>

\* await Message.countDocuments({...}), then res.json({count, pagination, data})
getMessages_count(i) ==
    /\ reqs[i].op = "getMessages" /\ reqs[i].pc = "count"
    /\ Complete(i, [reqs[i] EXCEPT !.pc = "done", !.status = 200,
            !.total = Cardinality(Conversation(messages, reqs[i].user, reqs[i].receiver))])
    /\ UNCHANGED <<categories, sockets, users, threads, comments, notifications, messages, emitted>>

----------------------------------------------------------------------------
\* Accounts

\* req.body.username of register: a name in use, a free one, an invalid one.
Usernames == {"u1", "u3", ""}

\* req.body.notificationPrefs of updateProfile: absent, or an object with chat.
PrefsInputs == {"absent", "chat", "nochat"}

\* body('username').isLength({min: 3, max: 30}).matches(...)
ValidUsername(username) == username # ""

\* The request record of register after validation and
\* User.findOne({$or: [{email}, {username}]}).
UserChecked(username) ==
    LET r == [NullReq EXCEPT !.op = "register", !.target = username]
    IN IF ~ValidUsername(username) THEN [r EXCEPT !.status = 400]
       ELSE IF username \in DOMAIN users THEN [r EXCEPT !.status = 400, !.found = TRUE]
       ELSE [r EXCEPT !.pc = "create"]

\* register up to its first await after User.findOne.
register_find(username) ==
    /\ Arrive(UserChecked(username))
    /\ UNCHANGED <<categories, sockets, users, threads, comments, notifications, messages, emitted>>

\* await User.create({username, ...}), then res.status(201); the unique index
\* rejects a name that was registered meanwhile (code 11000, answered 400).
register_create(i) ==
    /\ reqs[i].op = "register" /\ reqs[i].pc = "create"
    /\ IF reqs[i].target \in DOMAIN users
       THEN /\ users' = users
            /\ Complete(i, [reqs[i] EXCEPT !.pc = "done", !.status = 400])
       ELSE /\ users' = users @@ (reqs[i].target :> [chat |-> TRUE])
            /\ Complete(i, [reqs[i] EXCEPT !.pc = "done", !.status = 201])
    /\ UNCHANGED <<categories, sockets, threads, comments, notifications, messages, emitted>>

\* User.findByIdAndUpdate(req.user.id, fieldsToUpdate): notificationPrefs is
\* replaced when the body carries it.
ProfileUpdated(user, prefs) ==
    IF prefs = "absent" THEN user ELSE [user EXCEPT !.chat = (prefs = "chat")]

\* updateProfile: await User.findByIdAndUpdate(...), then res.json
updateProfile(u, prefs) ==
    /\ users' = [users EXCEPT ![u] = ProfileUpdated(@, prefs)]
    /\ Arrive([NullReq EXCEPT !.op = "updateProfile", !.user = u, !.status = 200,
                              !.found = TRUE])
    /\ UNCHANGED <<categories, sockets, threads, comments, notifications, messages, emitted>>

\* Sending messages while accounts are registered and profiles updated.
MsgNext ==
    \/ \E u \in UserIds, receiverId \in UserIds \cup {NoUser, "u3"}, content \in Contents :
          sendMessage_find(u, receiverId, content)
    \/ \E i \in 1..Len(reqs) : sendMessage_create(i)
    \/ \E i \in 1..Len(reqs) : sendMessage_notify(i)
    \/ \E i \in 1..Len(reqs) : sendMessage_notifyFails(i)
    \/ \E i \in 1..Len(reqs) : sendMessage_emit(i)
    \/ \E username \in Usernames : register_find(username)
    \/ \E i \in 1..Len(reqs) : register_create(i)
    \/ \E u \in UserIds, prefs \in PrefsInputs : updateProfile(u, prefs)

MsgSpec == Init /\ [][MsgNext]_vars

\* Sending and reading: sendMessage with content that passes validation, among
\* the first MaxSends requests, and getMessages.
ConvNext ==
    \/ \E u \in UserIds, receiverId \in UserIds \cup {NoUser} :
          started < MaxSends /\ sendMessage_find(u, receiverId, "hello")
    \/ \E i \in 1..Len(reqs) : sendMessage_create(i)
    \/ \E i \in 1..Len(reqs) : sendMessage_notify(i)
    \/ \E i \in 1..Len(reqs) : sendMessage_notifyFails(i)
    \/ \E i \in 1..Len(reqs) : sendMessage_emit(i)
    \/ \E u \in UserIds, userId \in UserIds \cup {NoUser} : getMessages_find(u, userId)
    \/ \E i \in 1..Len(reqs) : getMessages_query(i)
    \/ \E i \in 1..Len(reqs) : getMessages_mark(i)
    \/ \E i \in 1..Len(reqs) : getMessages_count(i)

ConvSpec == Init /\ [][ConvNext]_vars

----------------------------------------------------------------------------
\* markAsRead and deleteMessage

\* Message.findOne({_id: id}) returned a document, whoever its receiver is.
FindOwnMessage_AnyUser(msgs, id, u) ==
    \E k \in 1..Len(msgs) : msgs[k].id = id

\* Message.findOne({_id: id, receiver: req.user.id}) returned a document.
FindOwnMessage(msgs, id, u) ==
    \E k \in 1..Len(msgs) : msgs[k].id = id /\ msgs[k].receiver = u

\* The request record of markAsRead after Message.findOne and the synchronous
\* message.read = true; message.readAt = Date.now() (the clock is the number of
\* requests so far, this one included).
ReadChecked(u, id) ==
    LET r == [NullReq EXCEPT !.op = "markAsRead", !.user = u, !.msg = id]
    IN IF ~FindOwnMessage(messages, id, u) THEN [r EXCEPT !.status = 404]
       ELSE [r EXCEPT !.found = TRUE, !.pc = "save", !.now = started + 1]

\* markAsRead up to its first await after Message.findOne.
markAsRead_find(u, id) ==
    /\ Arrive(ReadChecked(u, id))
    /\ UNCHANGED <<categories, sockets, users, threads, comments, notifications, messages, emitted>>

\* await message.save() of read and readAt as they were set, then res.json
markAsRead_save(i) ==
    /\ reqs[i].op = "markAsRead" /\ reqs[i].pc = "save"
    /\ messages' = [messages EXCEPT ![reqs[i].msg].read = TRUE,
                                    ![reqs[i].msg].readAt = reqs[i].now]
    /\ Complete(i, [reqs[i] EXCEPT !.pc = "done", !.status = 200, !.now = 0])
    /\ UNCHANGED <<categories, sockets, users, threads, comments, notifications, emitted>>

\* !message.deletedBy.includes(req.user.id): the handler pushes the user.
PushesDeleter(m, u) == \A k \in 1..Len(m.deletedBy) : m.deletedBy[k] # u

\* message.deletedBy.length === 2 after the push, if any, on the document read.
BothDeleted(m, u) ==
    Len(m.deletedBy) + (IF PushesDeleter(m, u) THEN 1 ELSE 0) = 2

\* The request record of deleteMessage after Message.findById and the
\* synchronous code after it.
DeleteChecked(u, id) ==
    LET r == [NullReq EXCEPT !.op = "deleteMessage", !.user = u, !.msg = id]
    IN IF id \notin 1..Len(messages) THEN [r EXCEPT !.status = 404]
       ELSE IF messages[id].sender # u /\ messages[id].receiver # u
            THEN [r EXCEPT !.status = 403, !.found = TRUE]
       ELSE [r EXCEPT !.found = TRUE, !.pc = "save",
                      !.push = PushesDeleter(messages[id], u),
                      !.deleted = BothDeleted(messages[id], u)]

\* message.save(): $push of the pushed user, $set of isDeleted when it was set.
SaveDelete(stored, r) ==
    [stored EXCEPT !.deletedBy = IF r.push THEN Append(@, r.user) ELSE @,
                   !.isDeleted = IF r.deleted THEN TRUE ELSE @]

\* deleteMessage up to its first await after Message.findById.
deleteMessage_find(u, id) ==
    /\ Arrive(DeleteChecked(u, id))
    /\ UNCHANGED <<categories, sockets, users, threads, comments, notifications, messages, emitted>>

\* await message.save(), then res.json
deleteMessage_save(i) ==
    /\ reqs[i].op = "deleteMessage" /\ reqs[i].pc = "save"
    /\ messages' = [messages EXCEPT ![reqs[i].msg] = SaveDelete(@, reqs[i])]
    /\ Complete(i, [reqs[i] EXCEPT !.pc = "done", !.status = 200])
    /\ UNCHANGED <<categories, sockets, users, threads, comments, notifications, emitted>>

\* getUnreadCount: countDocuments({receiver: u, read: false, isDeleted: false})
UnreadOf(msgs, u) ==
    {msgs[k].id : k \in {j \in 1..Len(msgs) :
        msgs[j].receiver = u /\ ~msgs[j].read /\ ~msgs[j].isDeleted}}

\* Two messages have been sent and answered: one from u2 to u1 and one that u1
\* sent to themselves, each with its notification and its push into an empty room.
InboxInit ==
    /\ users = [u \in UserIds |-> [chat |-> (u # "u2")]]
    /\ categories = ("g1" :> NewCategory("Cat one", 1)) @@ ("g2" :> NewCategory("Cat two", 0))
    /\ threads = [t \in {"t1"} |-> [NewThread("u1", "g1") EXCEPT !.commentsCount = 1]]
    /\ comments = [c \in {"c1"} |-> NewComment("u2", "t1", "none")]
    /\ messages = <<NewMessage(1, "u2", "u1", "hello"), NewMessage(2, "u1", "u1", "hello")>>
    /\ notifications = <<MessageNotification("u1", "u2", 1), MessageNotification("u1", "u1", 2)>>
    /\ emitted = <<[room |-> UserRoom("u1"), event |-> "new-message", message |-> 1,
                    sender |-> "u2"],
                   [room |-> UserRoom("u1"), event |-> "new-message", message |-> 2,
                    sender |-> "u1"]>>
    /\ conns = <<>>
    /\ delivered = {}
    /\ reqs = <<>>
    /\ started = 0
    /\ log = <<>>

InboxNext ==
    \/ \E u \in UserIds, userId \in UserIds : getMessages_find(u, userId)
    \/ \E i \in 1..Len(reqs) : getMessages_query(i)
    \/ \E i \in 1..Len(reqs) : getMessages_mark(i)
    \/ \E i \in 1..Len(reqs) : getMessages_count(i)
    \/ \E u \in UserIds, id \in MessageIds : markAsRead_find(u, id)
    \/ \E i \in 1..Len(reqs) : markAsRead_save(i)
    \/ \E u \in UserIds, id \in MessageIds : deleteMessage_find(u, id)
    \/ \E i \in 1..Len(reqs) : deleteMessage_save(i)

InboxSpec == InboxInit /\ [][InboxNext]_vars

----------------------------------------------------------------------------
\* The Socket.IO connection handler

\* io.use(socketAuth), io.on('connection', socket => ...): the middleware has
\* set socket.userId; the handler registers the four listeners and joins no room.
connect(u) ==
    /\ started < MaxReqs
    /\ started' = started + 1
    /\ conns' = Append(conns, [userId |-> u, connected |-> TRUE, rooms |-> {}])
    /\ UNCHANGED <<categories, delivered, users, threads, comments, notifications, messages, emitted,
                   reqs, log>>

\* socket.on('disconnect', ...): the socket has left every room.
disconnect(c) ==
    /\ conns[c].connected
    /\ started < MaxReqs
    /\ started' = started + 1
    /\ conns' = [conns EXCEPT ![c].connected = FALSE, ![c].rooms = {}]
    /\ UNCHANGED <<categories, delivered, users, threads, comments, notifications, messages, emitted,
                   reqs, log>>

\* socket.on('join-room', roomId => socket.join(roomId))
joinRoom(c, roomId) ==
    /\ conns[c].connected
    /\ started < MaxReqs
    /\ started' = started + 1
    /\ conns' = [conns EXCEPT ![c].rooms = @ \cup {roomId}]
    /\ UNCHANGED <<categories, delivered, users, threads, comments, notifications, messages, emitted,
                   reqs, log>>

\* socket.on('leave-room', roomId => socket.leave(roomId))
leaveRoom(c, roomId) ==
    /\ conns[c].connected
    /\ started < MaxReqs
    /\ started' = started + 1
    /\ conns' = [conns EXCEPT ![c].rooms = @ \ {roomId}]
    /\ UNCHANGED <<categories, delivered, users, threads, comments, notifications, messages, emitted,
                   reqs, log>>

\* socket.on('send-message', data => socket.to(`user-${receiverId}`).emit(
\* 'new-message', {senderId, content, threadId, timestamp})): the event goes to
\* the room's members other than the sending socket.  It carries no Message
\* document (message 0).
socketSendMessage(c, receiverId) ==
    /\ conns[c].connected
    /\ started < MaxReqs
    /\ started' = started + 1
    /\ emitted' = Append(emitted,
          [room |-> UserRoom(receiverId), event |-> "new-message",
           message |-> 0, sender |-> conns[c].userId])
    /\ delivered' = delivered \cup Deliveries(InRoom(UserRoom(receiverId)) \ {c},
                                              Len(emitted) + 1)
    /\ UNCHANGED <<categories, conns, users, threads, comments, notifications, messages, reqs, log>>

SocketNext ==
    \/ \E u \in UserIds : connect(u)
    \/ \E c \in 1..Len(conns) : disconnect(c)
    \/ \E c \in 1..Len(conns), roomId \in RoomIds : joinRoom(c, roomId)
    \/ \E c \in 1..Len(conns), roomId \in RoomIds : leaveRoom(c, roomId)
    \/ \E c \in 1..Len(conns), receiverId \in UserIds \cup {NoUser} :
          socketSendMessage(c, receiverId)
    \/ \E u \in UserIds, receiverId \in UserIds : sendMessage_find(u, receiverId, "hello")
    \/ \E i \in 1..Len(reqs) : sendMessage_create(i)
    \/ \E i \in 1..Len(reqs) : sendMessage_notify(i)
    \/ \E i \in 1..Len(reqs) : sendMessage_emit(i)

SocketSpec == Init /\ [][SocketNext]_vars

----------------------------------------------------------------------------
\* createComment

\* comment._id of the comment that the n-th request creates.
CommentIdOf(n) == "c" \o ToString(n + 1)

\* Notification.create({userId, type, data: {commentId, fromUserId, ...}})
CommentNotification(type, userId, u, cid) ==
    [userId |-> userId, type |-> type, fromUserId |-> u, ref |-> cid]

\* The first position from k on in mentions that is not the commenter's id
\* (mentionedUserId !== req.user.id), Len + 1 when there is none.
NextMention(mentions, u, k) ==
    IF \E j \in k..Len(mentions) : mentions[j] # u
    THEN CHOOSE j \in k..Len(mentions) :
            /\ mentions[j] # u
            /\ \A h \in k..(j - 1) : mentions[h] = u
    ELSE Len(mentions) + 1

\* The request record when the mention loop goes on from position k: at the
\* User.findById of the next mention, or past the loop at the populate.
ToMention(r, k) ==
    LET j == NextMention(r.mentions, r.user, k) IN
    IF j <= Len(r.mentions)
    THEN [r EXCEPT !.pc = "mentionFind", !.k = j]
    ELSE [r EXCEPT !.pc = "populate", !.k = j]

\* The request record after validationResult, Thread.findById and the lock check.
ThreadChecked(u, threadId, parentId, mentions) ==
    LET r == [NullReq EXCEPT !.op = "createComment", !.user = u, !.id = threadId,
                             !.parentId = parentId, !.mentions = mentions]
    IN IF threadId \notin DOMAIN threads THEN [r EXCEPT !.status = 404]
       ELSE IF threads[threadId].isLocked
            THEN [r EXCEPT !.status = 403, !.found = TRUE, !.doc = threads[threadId]]
       ELSE [r EXCEPT !.found = TRUE, !.doc = threads[threadId],
                      !.cid = CommentIdOf(started + 1),
                      !.pc = IF parentId # "none" THEN "parent" ELSE "create"]

\* createComment up to its first await after Thread.findById.
createComment_find(u, threadId, parentId, mentions) ==
    /\ started < MaxComments
    /\ Arrive(ThreadChecked(u, threadId, parentId, mentions))
    /\ UNCHANGED <<categories, sockets, users, threads, comments, notifications, messages, emitted>>

\* if (parentId) { await Comment.findById(parentId); 404 when there is none }
createComment_parent(i) ==
    /\ reqs[i].op = "createComment" /\ reqs[i].pc = "parent"
    /\ IF reqs[i].parentId \in DOMAIN comments
       THEN /\ reqs' = [reqs EXCEPT ![i].pc = "create"]
            /\ UNCHANGED <<started, log>>
       ELSE Complete(i, [reqs[i] EXCEPT !.pc = "done", !.status = 404])
    /\ UNCHANGED <<categories, sockets, users, threads, comments, notifications, messages, emitted>>

\* await Comment.create({threadId, userId, body, parentId, mentions})
createComment_create(i) ==
    /\ reqs[i].op = "createComment" /\ reqs[i].pc = "create"
    /\ comments' = comments @@
          (reqs[i].cid :> NewComment(reqs[i].user, reqs[i].id, reqs[i].parentId))
    /\ reqs' = [reqs EXCEPT ![i].pc = "count"]
    /\ UNCHANGED <<categories, sockets, users, threads, notifications, messages, emitted, started, log>>

\* Whether the reply notification of the thread's owner is created:
\* !parentId and thread.createdBy.toString() !== req.user.id
NotifyThreadOwner(r) == r.parentId = "none" /\ r.doc.owner # r.user

\* await Thread.findByIdAndUpdate(threadId, {$inc: {commentsCount: 1}}), then
\* the branch on parentId.
createComment_count(i) ==
    /\ reqs[i].op = "createComment" /\ reqs[i].pc = "count"
    /\ threads' = IF reqs[i].id \in DOMAIN threads
                  THEN [threads EXCEPT ![reqs[i].id].commentsCount = @ + 1]
                  ELSE threads
    /\ reqs' = [reqs EXCEPT ![i] =
          IF NotifyThreadOwner(reqs[i])
          THEN [reqs[i] EXCEPT !.pc = "notifyThread", !.target = reqs[i].doc.owner]
          ELSE IF reqs[i].parentId = "none" THEN ToMention(reqs[i], 1)
          ELSE [reqs[i] EXCEPT !.pc = "parentAgain"]]
    /\ UNCHANGED <<categories, sockets, users, comments, notifications, messages, emitted, started, log>>

\* await Notification.create({userId: thread.createdBy, type: 'thread_reply', ...})
createComment_notifyThread(i) ==
    /\ reqs[i].op = "createComment" /\ reqs[i].pc = "notifyThread"
    /\ notifications' = Append(notifications,
          CommentNotification("thread_reply", reqs[i].target, reqs[i].user, reqs[i].cid))
    /\ reqs' = [reqs EXCEPT ![i] = ToMention([reqs[i] EXCEPT !.notified = TRUE], 1)]
    /\ UNCHANGED <<categories, sockets, users, threads, comments, messages, emitted, started, log>>

\* const parentComment = await Comment.findById(parentId); reading userId of
\* null throws and errorHandler responds 500.
createComment_parentAgain(i) ==
    /\ reqs[i].op = "createComment" /\ reqs[i].pc = "parentAgain"
    /\ IF reqs[i].parentId \notin DOMAIN comments
       THEN Complete(i, [reqs[i] EXCEPT !.pc = "done", !.status = 500])
       ELSE /\ reqs' = [reqs EXCEPT ![i] =
                  IF comments[reqs[i].parentId].owner # reqs[i].user
                  THEN [reqs[i] EXCEPT !.pc = "notifyParent",
                                       !.target = comments[reqs[i].parentId].owner]
                  ELSE ToMention(reqs[i], 1)]
            /\ UNCHANGED <<started, log>>
    /\ UNCHANGED <<categories, sockets, users, threads, comments, notifications, messages, emitted>>

\* await Notification.create({userId: parentComment.userId, type: 'comment_reply', ...})
createComment_notifyParent(i) ==
    /\ reqs[i].op = "createComment" /\ reqs[i].pc = "notifyParent"
    /\ notifications' = Append(notifications,
          CommentNotification("comment_reply", reqs[i].target, reqs[i].user, reqs[i].cid))
    /\ reqs' = [reqs EXCEPT ![i] = ToMention([reqs[i] EXCEPT !.notified = TRUE], 1)]
    /\ UNCHANGED <<categories, sockets, users, threads, comments, messages, emitted, started, log>>

\* const mentionedUser = await User.findById(mentionedUserId)
createComment_mentionFind(i) ==
    /\ reqs[i].op = "createComment" /\ reqs[i].pc = "mentionFind"
    /\ reqs' = [reqs EXCEPT ![i] =
          IF reqs[i].mentions[reqs[i].k] \in DOMAIN users
          THEN [reqs[i] EXCEPT !.pc = "mentionNotify"]
          ELSE ToMention(reqs[i], reqs[i].k + 1)]
    /\ UNCHANGED <<categories, sockets, users, threads, comments, notifications, messages, emitted,
                   started, log>>

\* await Notification.create({userId: mentionedUserId, type: 'comment_mention', ...})
createComment_mentionNotify(i) ==
    /\ reqs[i].op = "createComment" /\ reqs[i].pc = "mentionNotify"
    /\ notifications' = Append(notifications,
          CommentNotification("comment_mention", reqs[i].mentions[reqs[i].k],
                              reqs[i].user, reqs[i].cid))
    /\ reqs' = [reqs EXCEPT ![i] = ToMention(reqs[i], reqs[i].k + 1)]
    /\ UNCHANGED <<categories, sockets, users, threads, comments, messages, emitted, started, log>>

\* await Comment.findById(comment._id).populate(...), then res.status(201)
createComment_populate(i) ==
    /\ reqs[i].op = "createComment" /\ reqs[i].pc = "populate"
    /\ Complete(i, [reqs[i] EXCEPT !.pc = "done", !.status = 201])
    /\ UNCHANGED <<categories, sockets, users, threads, comments, notifications, messages, emitted>>

CommentNext ==
    \/ \E u \in UserIds, threadId \in ThreadIds, parentId \in ParentIds,
          mentions \in MentionLists : createComment_find(u, threadId, parentId, mentions)
    \/ \E i \in 1..Len(reqs) : createComment_parent(i)
    \/ \E i \in 1..Len(reqs) : createComment_create(i)
    \/ \E i \in 1..Len(reqs) : createComment_count(i)
    \/ \E i \in 1..Len(reqs) : createComment_notifyThread(i)
    \/ \E i \in 1..Len(reqs) : createComment_parentAgain(i)
    \/ \E i \in 1..Len(reqs) : createComment_notifyParent(i)
    \/ \E i \in 1..Len(reqs) : createComment_mentionFind(i)
    \/ \E i \in 1..Len(reqs) : createComment_mentionNotify(i)
    \/ \E i \in 1..Len(reqs) : createComment_populate(i)

CommentSpec == Init /\ [][CommentNext]_vars

----------------------------------------------------------------------------
\* Deleting threads and comments

\* The request record of deleteThread after Thread.findById and the ownership
\* check.
ThreadOwned(u, id) ==
    LET r == [NullReq EXCEPT !.op = "deleteThread", !.user = u, !.id = id]
    IN IF id \notin DOMAIN threads THEN [r EXCEPT !.status = 404]
       ELSE IF threads[id].owner # u
            THEN [r EXCEPT !.status = 403, !.found = TRUE, !.doc = threads[id]]
       ELSE [r EXCEPT !.found = TRUE, !.doc = threads[id], !.pc = "comments"]

\* Comment.deleteMany({threadId: id}): the comments left.
WithoutThread(coll, id) ==
    [c \in {d \in DOMAIN coll : coll[d].threadId # id} |-> coll[c]]

\* Category.findByIdAndUpdate(id, {$inc: {threadsCount: n}}); no category, no update.
IncThreadsCount(cats, id, n) ==
    IF id \in DOMAIN cats THEN [cats EXCEPT ![id].threadsCount = @ + n] ELSE cats

\* doc.deleteOne(): the collection without the document.
Without(coll, id) == [d \in DOMAIN coll \ {id} |-> coll[d]]

\* deleteThread up to its first await after Thread.findById.
deleteThread_find(u, id) ==
    /\ Arrive(ThreadOwned(u, id))
    /\ UNCHANGED <<categories, sockets, users, threads, comments, notifications, messages, emitted>>

\* await Comment.deleteMany({threadId: thread._id})
deleteThread_comments(i) ==
    /\ reqs[i].op = "deleteThread" /\ reqs[i].pc = "comments"
    /\ comments' = WithoutThread(comments, reqs[i].id)
    /\ reqs' = [reqs EXCEPT ![i].pc = "category"]
    /\ UNCHANGED <<categories, sockets, users, threads, notifications, messages, emitted, started, log>>

\* await Category.findByIdAndUpdate(thread.category, {$inc: {threadsCount: -1}})
deleteThread_category(i) ==
    /\ reqs[i].op = "deleteThread" /\ reqs[i].pc = "category"
    /\ categories' = IncThreadsCount(categories, reqs[i].doc.category, -1)
    /\ reqs' = [reqs EXCEPT ![i].pc = "delete"]
    /\ UNCHANGED <<sockets, users, threads, comments, notifications, messages, emitted, started, log>>

\* await thread.deleteOne(), then res.json
deleteThread_delete(i) ==
    /\ reqs[i].op = "deleteThread" /\ reqs[i].pc = "delete"
    /\ threads' = Without(threads, reqs[i].id)
    /\ Complete(i, [reqs[i] EXCEPT !.pc = "done", !.status = 200])
    /\ UNCHANGED <<categories, sockets, users, comments, notifications, messages, emitted>>

\* The request record of deleteComment after Comment.findById and the ownership
\* check.
CommentOwned(u, id) ==
    LET r == [NullReq EXCEPT !.op = "deleteComment", !.user = u, !.id = id]
    IN IF id \notin DOMAIN comments THEN [r EXCEPT !.status = 404]
       ELSE IF comments[id].owner # u
            THEN [r EXCEPT !.status = 403, !.found = TRUE, !.doc = comments[id]]
       ELSE [r EXCEPT !.found = TRUE, !.doc = comments[id], !.pc = "replies"]

\* The direct replies of comment id: {parentId: id}.
RepliesOf(coll, id) == {d \in DOMAIN coll : coll[d].parentId = id}

\* Comment.deleteMany({parentId: id}): the comments left.
WithoutReplies(coll, id) == [c \in DOMAIN coll \ RepliesOf(coll, id) |-> coll[c]]

\* Thread.findByIdAndUpdate(threadId, {$inc: {commentsCount: -(replyCount + 1)}})
DecCommentsCount(ths, id, replyCount) ==
    IF id \in DOMAIN ths
    THEN [ths EXCEPT ![id].commentsCount = @ - (replyCount + 1)]
    ELSE ths

\* deleteComment up to its first await after Comment.findById.
deleteComment_find(u, id) ==
    /\ Arrive(CommentOwned(u, id))
    /\ UNCHANGED <<categories, sockets, users, threads, comments, notifications, messages, emitted>>

\* await Comment.deleteMany({parentId: comment._id})
deleteComment_replies(i) ==
    /\ reqs[i].op = "deleteComment" /\ reqs[i].pc = "replies"
    /\ comments' = WithoutReplies(comments, reqs[i].id)
    /\ reqs' = [reqs EXCEPT ![i].pc = "count"]
    /\ UNCHANGED <<categories, sockets, users, threads, notifications, messages, emitted, started, log>>

\* replyCount = await Comment.countDocuments({parentId: comment._id})
deleteComment_count(i) ==
    /\ reqs[i].op = "deleteComment" /\ reqs[i].pc = "count"
    /\ reqs' = [reqs EXCEPT ![i].pc = "dec",
                            ![i].total = Cardinality(RepliesOf(comments, reqs[i].id))]
    /\ UNCHANGED <<categories, sockets, users, threads, comments, notifications, messages, emitted,
                   started, log>>

\* await Thread.findByIdAndUpdate(comment.threadId, {$inc: {commentsCount: ...}})
deleteComment_dec(i) ==
    /\ reqs[i].op = "deleteComment" /\ reqs[i].pc = "dec"
    /\ threads' = DecCommentsCount(threads, reqs[i].doc.threadId, reqs[i].total)
    /\ reqs' = [reqs EXCEPT ![i].pc = "delete"]
    /\ UNCHANGED <<categories, sockets, users, comments, notifications, messages, emitted, started, log>>

\* await comment.deleteOne(), then res.json
deleteComment_delete(i) ==
    /\ reqs[i].op = "deleteComment" /\ reqs[i].pc = "delete"
    /\ comments' = Without(comments, reqs[i].id)
    /\ Complete(i, [reqs[i] EXCEPT !.pc = "done", !.status = 200])
    /\ UNCHANGED <<categories, sockets, users, threads, notifications, messages, emitted>>

\* Comments are created and deleted and threads are deleted.
TreeNext ==
    \/ \E u \in UserIds, threadId \in ThreadIds, parentId \in ParentIds,
          mentions \in MentionLists : createComment_find(u, threadId, parentId, mentions)
    \/ \E i \in 1..Len(reqs) : createComment_parent(i)
    \/ \E i \in 1..Len(reqs) : createComment_create(i)
    \/ \E i \in 1..Len(reqs) : createComment_count(i)
    \/ \E i \in 1..Len(reqs) : createComment_notifyThread(i)
    \/ \E i \in 1..Len(reqs) : createComment_parentAgain(i)
    \/ \E i \in 1..Len(reqs) : createComment_notifyParent(i)
    \/ \E i \in 1..Len(reqs) : createComment_mentionFind(i)
    \/ \E i \in 1..Len(reqs) : createComment_mentionNotify(i)
    \/ \E i \in 1..Len(reqs) : createComment_populate(i)
    \/ \E u \in UserIds, id \in CommentIds : deleteComment_find(u, id)
    \/ \E i \in 1..Len(reqs) : deleteComment_replies(i)
    \/ \E i \in 1..Len(reqs) : deleteComment_count(i)
    \/ \E i \in 1..Len(reqs) : deleteComment_dec(i)
    \/ \E i \in 1..Len(reqs) : deleteComment_delete(i)
    \/ \E u \in UserIds, id \in ThreadIds : deleteThread_find(u, id)
    \/ \E i \in 1..Len(reqs) : deleteThread_comments(i)
    \/ \E i \in 1..Len(reqs) : deleteThread_category(i)
    \/ \E i \in 1..Len(reqs) : deleteThread_delete(i)

TreeSpec == Init /\ [][TreeNext]_vars

----------------------------------------------------------------------------
\* Categories and their threads

\* body('categoryId').isMongoId()
ValidCategoryId(categoryId) == categoryId # ""

\* The id Thread.create gives the thread of the n-th request.
ThreadIdOf(n) == "t" \o ToString(n + 1)

\* The request record of createThread after validation and
\* Category.findById(categoryId).
CategoryChecked(u, categoryId) ==
    LET r == [NullReq EXCEPT !.op = "createThread", !.user = u, !.id = categoryId]
    IN IF ~ValidCategoryId(categoryId) THEN [r EXCEPT !.status = 400]
       ELSE IF categoryId \notin DOMAIN categories THEN [r EXCEPT !.status = 404]
       ELSE [r EXCEPT !.found = TRUE, !.cid = ThreadIdOf(started + 1), !.pc = "create"]

\* createThread up to its first await after Category.findById.
createThread_find(u, categoryId) ==
    /\ Arrive(CategoryChecked(u, categoryId))
    /\ UNCHANGED <<categories, sockets, users, threads, comments, notifications, messages, emitted>>

\* await Thread.create({..., category: categoryId, createdBy: req.user.id})
createThread_create(i) ==
    /\ reqs[i].op = "createThread" /\ reqs[i].pc = "create"
    /\ threads' = threads @@ (reqs[i].cid :> NewThread(reqs[i].user, reqs[i].id))
    /\ reqs' = [reqs EXCEPT ![i].pc = "count"]
    /\ UNCHANGED <<categories, sockets, users, comments, notifications, messages, emitted, started, log>>

\* await Category.findByIdAndUpdate(categoryId, {$inc: {threadsCount: 1}})
createThread_count(i) ==
    /\ reqs[i].op = "createThread" /\ reqs[i].pc = "count"
    /\ categories' = IncThreadsCount(categories, reqs[i].id, 1)
    /\ reqs' = [reqs EXCEPT ![i].pc = "populate"]
    /\ UNCHANGED <<sockets, users, threads, comments, notifications, messages, emitted, started, log>>

\* await Thread.findById(thread._id).populate(...), then res.status(201)
createThread_populate(i) ==
    /\ reqs[i].op = "createThread" /\ reqs[i].pc = "populate"
    /\ Complete(i, [reqs[i] EXCEPT !.pc = "done", !.status = 201])
    /\ UNCHANGED <<categories, sockets, users, threads, comments, notifications, messages, emitted>>

\* The request record of deleteCategory after Category.findById.
CategoryFound(id) ==
    LET r == [NullReq EXCEPT !.op = "deleteCategory", !.id = id]
    IN IF id \notin DOMAIN categories THEN [r EXCEPT !.status = 404]
       ELSE [r EXCEPT !.found = TRUE, !.pc = "count"]

\* Thread.countDocuments({category: id})
ThreadsIn(ths, id) == {t \in DOMAIN ths : ths[t].category = id}

\* deleteCategory up to its first await after Category.findById.
deleteCategory_find(id) ==
    /\ Arrive(CategoryFound(id))
    /\ UNCHANGED <<categories, sockets, users, threads, comments, notifications, messages, emitted>>

\* threadCount = await Thread.countDocuments({category}); 400 when threadCount > 0
deleteCategory_count(i) ==
    /\ reqs[i].op = "deleteCategory" /\ reqs[i].pc = "count"
    /\ IF Cardinality(ThreadsIn(threads, reqs[i].id)) > 0
       THEN Complete(i, [reqs[i] EXCEPT !.pc = "done", !.status = 400,
                                        !.total = Cardinality(ThreadsIn(threads, reqs[i].id))])
       ELSE /\ reqs' = [reqs EXCEPT ![i].pc = "delete"]
            /\ UNCHANGED <<started, log>>
    /\ UNCHANGED <<categories, sockets, users, threads, comments, notifications, messages, emitted>>

\* await category.deleteOne(), then res.json
deleteCategory_delete(i) ==
    /\ reqs[i].op = "deleteCategory" /\ reqs[i].pc = "delete"
    /\ categories' = Without(categories, reqs[i].id)
    /\ Complete(i, [reqs[i] EXCEPT !.pc = "done", !.status = 200])
    /\ UNCHANGED <<sockets, users, threads, comments, notifications, messages, emitted>>

\* req.body.name of createCategory and updateCategory: a new name, the name of a stored category
\* in other letter case, an invalid one.
CategoryNames == {"Cat three", "cat one", ""}

\* body('name').isLength({min: 2, max: 50})
ValidCategoryName(name) == name # ""

\* Category.findOne({name: {$regex: new RegExp(`^${name}$`, 'i')}, _id: {$ne: self}})
\* finds one; createCategory excludes no id.
CategoryNamed(cats, name, self) ==
    \E g \in DOMAIN cats \ {self} : LowerCase(cats[g].name) = LowerCase(name)

\* The unique indexes on name and on slug reject a new category of this name.
DuplicateKey(cats, name) ==
    \E g \in DOMAIN cats : cats[g].name = name \/ cats[g].slug = Slug(name)

\* The id Category.create gives the category of the n-th request.
CategoryIdOf(n) == "g" \o ToString(n + 2)

\* The request record of createCategory after validation and Category.findOne.
NameChecked(name) ==
    LET r == [NullReq EXCEPT !.op = "createCategory", !.content = name]
    IN IF ~ValidCategoryName(name) THEN [r EXCEPT !.status = 400]
       ELSE IF CategoryNamed(categories, name, "none")
            THEN [r EXCEPT !.status = 400, !.found = TRUE]
       ELSE [r EXCEPT !.cid = CategoryIdOf(started + 1), !.pc = "create"]

\* createCategory up to its first await after Category.findOne.
createCategory_find(name) ==
    /\ Arrive(NameChecked(name))
    /\ UNCHANGED <<categories, sockets, users, threads, comments, notifications, messages, emitted>>

\* await Category.create({name, ...}), then res.status(201); the unique indexes
\* on name and on slug reject a duplicate (code 11000, answered 400).
createCategory_create(i) ==
    /\ reqs[i].op = "createCategory" /\ reqs[i].pc = "create"
    /\ IF DuplicateKey(categories, reqs[i].content)
       THEN /\ categories' = categories
            /\ Complete(i, [reqs[i] EXCEPT !.pc = "done", !.status = 400])
       ELSE /\ categories' = categories @@ (reqs[i].cid :> NewCategory(reqs[i].content, 0))
            /\ Complete(i, [reqs[i] EXCEPT !.pc = "done", !.status = 201])
    /\ UNCHANGED <<sockets, users, threads, comments, notifications, messages, emitted>>

\* The request record of updateCategory after Category.findById and the test
\* name && name !== category.name; it keeps the name read.
CategoryLoaded(id, name) ==
    LET r == [NullReq EXCEPT !.op = "updateCategory", !.id = id, !.content = name]
    IN IF id \notin DOMAIN categories THEN [r EXCEPT !.status = 404]
       ELSE [r EXCEPT !.found = TRUE, !.target = categories[id].name,
                      !.pc = IF name # "" /\ name # categories[id].name
                             THEN "check" ELSE "update"]

\* name || category.name
NameToStore(r) == IF r.content # "" THEN r.content ELSE r.target

\* updateCategory up to its first await after Category.findById.
updateCategory_find(id, name) ==
    /\ Arrive(CategoryLoaded(id, name))
    /\ UNCHANGED <<categories, sockets, users, threads, comments, notifications, messages, emitted>>

\* existingCategory = await Category.findOne({name: ..., _id: {$ne: category._id}});
\* 400 when there is one
updateCategory_check(i) ==
    /\ reqs[i].op = "updateCategory" /\ reqs[i].pc = "check"
    /\ IF CategoryNamed(categories, reqs[i].content, reqs[i].id)
       THEN Complete(i, [reqs[i] EXCEPT !.pc = "done", !.status = 400])
       ELSE /\ reqs' = [reqs EXCEPT ![i].pc = "update"]
            /\ UNCHANGED <<started, log>>
    /\ UNCHANGED <<categories, sockets, users, threads, comments, notifications, messages, emitted>>

\* await Category.findByIdAndUpdate(id, {name: name || category.name, ...}), then
\* res.json: the slug is not recomputed; the unique index on name rejects the
\* name of another category (code 11000, answered 400); no category, no update.
updateCategory_update(i) ==
    /\ reqs[i].op = "updateCategory" /\ reqs[i].pc = "update"
    /\ IF reqs[i].id \notin DOMAIN categories
       THEN /\ categories' = categories
            /\ Complete(i, [reqs[i] EXCEPT !.pc = "done", !.status = 200])
       ELSE IF \E g \in DOMAIN categories \ {reqs[i].id} :
                    categories[g].name = NameToStore(reqs[i])
       THEN /\ categories' = categories
            /\ Complete(i, [reqs[i] EXCEPT !.pc = "done", !.status = 400])
       ELSE /\ categories' = [categories EXCEPT ![reqs[i].id].name = NameToStore(reqs[i])]
            /\ Complete(i, [reqs[i] EXCEPT !.pc = "done", !.status = 200])
    /\ UNCHANGED <<sockets, users, threads, comments, notifications, messages, emitted>>

\* Threads are created and deleted while categories are created, renamed and
\* deleted.
CategoryNext ==
    \/ \E id \in CategoryIds, name \in CategoryNames : updateCategory_find(id, name)
    \/ \E i \in 1..Len(reqs) : updateCategory_check(i)
    \/ \E i \in 1..Len(reqs) : updateCategory_update(i)
    \/ \E name \in CategoryNames : createCategory_find(name)
    \/ \E i \in 1..Len(reqs) : createCategory_create(i)
    \/ \E u \in UserIds, categoryId \in CategoryIds \cup {""} : createThread_find(u, categoryId)
    \/ \E i \in 1..Len(reqs) : createThread_create(i)
    \/ \E i \in 1..Len(reqs) : createThread_count(i)
    \/ \E i \in 1..Len(reqs) : createThread_populate(i)
    \/ \E id \in CategoryIds : deleteCategory_find(id)
    \/ \E i \in 1..Len(reqs) : deleteCategory_count(i)
    \/ \E i \in 1..Len(reqs) : deleteCategory_delete(i)
    \/ \E u \in UserIds, id \in ThreadIds : deleteThread_find(u, id)
    \/ \E i \in 1..Len(reqs) : deleteThread_comments(i)
    \/ \E i \in 1..Len(reqs) : deleteThread_category(i)
    \/ \E i \in 1..Len(reqs) : deleteThread_delete(i)

CategorySpec == Init /\ [][CategoryNext]_vars

\* Votes on threads while threads are deleted.
VoteDeleteNext ==
    \/ \E u \in UserIds, id \in ThreadIds, vt \in VoteTypes : voteThread_find(u, id, vt)
    \/ \E i \in 1..Len(reqs) : voteThread_notify(i)
    \/ \E i \in 1..Len(reqs) : voteThread_save(i)
    \/ \E u \in UserIds, id \in ThreadIds : deleteThread_find(u, id)
    \/ \E i \in 1..Len(reqs) : deleteThread_comments(i)
    \/ \E i \in 1..Len(reqs) : deleteThread_category(i)
    \/ \E i \in 1..Len(reqs) : deleteThread_delete(i)

VoteDeleteSpec == Init /\ [][VoteDeleteNext]_vars

----------------------------------------------------------------------------
\* Properties of the vote handlers

\* Every stored votable document.
StoredDocs ==
    {threads[t] : t \in DOMAIN threads} \cup {comments[c] : c \in DOMAIN comments}

\* The collection a vote handler works on.
Coll(op) == IF op = "voteThread" THEN threads ELSE comments

IsVote(e) == e.op \in {"voteThread", "voteComment"}

\* Number of vote records of one direction.
CountVotes(votedBy, voteType) ==
    Cardinality({i \in 1..Len(votedBy) : votedBy[i].voteType = voteType})

\* Whether the user has a record in votedBy.
HasRecord(votedBy, u) == \E i \in 1..Len(votedBy) : votedBy[i].user = u

\* No two records of votedBy are of the same user.
DistinctVoters(votedBy) ==
    \A i, j \in 1..Len(votedBy) : i # j => votedBy[i].user # votedBy[j].user

\* The request that arrived in this step (meaningful when started' = started + 1).
Arrived == IF Len(reqs') > Len(reqs) THEN reqs'[Len(reqs')] ELSE log'[Len(log')]

\* The two most recent responses are those of two requests that ran one after
\* the other, each from its read to its response with no other request in flight
\* (alone: none was in flight when it arrived and none arrived before it
\* completed), and nothing is in flight now.
TwoInARow ==
    /\ reqs = <<>>
    /\ Len(log) >= 2
    /\ log[Len(log) - 1].alone
    /\ log[Len(log)].alone

\* C1: in every reachable state each entity's upvotes counter equals the number of
\* its 'up' vote records and its downvotes counter the number of its 'down' records.
C1_CountersMatchRecords ==
    \A d \in StoredDocs :
        /\ d.upvotes = CountVotes(d.votedBy, "up")
        /\ d.downvotes = CountVotes(d.votedBy, "down")

\* C2: when every request issued so far was a first vote on the same entity, each by
\* a different user (the entity holds one record per request, of distinct users),
\* and all of them have completed, then upvotes + downvotes equals their number.
C2_NoLostUpdates ==
    \A d \in StoredDocs :
        ( /\ reqs = <<>>
          /\ started >= 2
          /\ Len(d.votedBy) = started
          /\ DistinctVoters(d.votedBy) )
        => d.upvotes + d.downvotes = started

\* The change of a document's counters in one step equals the change of its records.
CountersFollowRecords(a, b) ==
    /\ b.upvotes - a.upvotes = CountVotes(b.votedBy, "up") - CountVotes(a.votedBy, "up")
    /\ b.downvotes - a.downvotes
          = CountVotes(b.votedBy, "down") - CountVotes(a.votedBy, "down")

\* C3: every step that changes a stored entity whose records are of distinct users
\* changes its counters and its vote records together: no step changes a counter
\* without the matching record change, nor a record without the matching counter
\* change.
C3_VoteMutationAtomic ==
    [][ /\ \A t \in DOMAIN threads \cap DOMAIN threads' :
              DistinctVoters(threads'[t].votedBy) =>
                  CountersFollowRecords(threads[t], threads'[t])
        /\ \A c \in DOMAIN comments \cap DOMAIN comments' :
              DistinctVoters(comments'[c].votedBy) =>
                  CountersFollowRecords(comments[c], comments'[c]) ]_vars

\* C4: in every reachable state votedBy holds at most one record per user.
C4_OneRecordPerUser ==
    \A d \in StoredDocs : DistinctVoters(d.votedBy)

\* The last two requests were the same vote (entity, user, direction) twice, by a
\* user who had no record on the entity before the first.
SameVoteTwice ==
    /\ TwoInARow
    /\ LET e1 == log[Len(log) - 1]
           e2 == log[Len(log)]
       IN /\ IsVote(e1) /\ e2.op = e1.op /\ e2.id = e1.id
          /\ e2.user = e1.user /\ e2.voteType = e1.voteType
          /\ e1.voteType \in {"up", "down"}
          /\ e1.found /\ e2.found
          /\ ~HasRecord(e1.before.votedBy, e1.user)

\* C5: two consecutive identical votes by a user without a record leave the entity
\* with no record of the user and both counters at their values before the first
\* vote, and the second response reports those counters.
C5_ToggleRestores ==
    SameVoteTwice =>
        LET e1 == log[Len(log) - 1]
            e2 == log[Len(log)]
            d == Coll(e1.op)[e1.id]
        IN /\ e1.status = 200 /\ e2.status = 200
           /\ ~HasRecord(d.votedBy, e1.user)
           /\ d.upvotes = e1.before.upvotes
           /\ d.downvotes = e1.before.downvotes
           /\ e2.upvotes = e1.before.upvotes
           /\ e2.downvotes = e1.before.downvotes

C5_Witness ==
    /\ SameVoteTwice
    /\ log[Len(log)].status = 200
    /\ log[Len(log)].voteType = "up"

\* The last two requests were a vote and then the opposite vote on the same entity,
\* by a user who had no record on the entity before the first.
OppositeVotes ==
    /\ TwoInARow
    /\ LET e1 == log[Len(log) - 1]
           e2 == log[Len(log)]
       IN /\ IsVote(e1) /\ e2.op = e1.op /\ e2.id = e1.id
          /\ e2.user = e1.user
          /\ e1.voteType \in {"up", "down"} /\ e2.voteType \in {"up", "down"}
          /\ e2.voteType # e1.voteType
          /\ e1.found /\ e2.found
          /\ ~HasRecord(e1.before.votedBy, e1.user)

\* C6: a vote followed by the opposite vote of the same user, who had no record,
\* leaves exactly one record of the user, with the second direction; the counter of
\* the first direction is back at its baseline and the counter of the second is
\* baseline + 1; the second request moved both counters by exactly 1.
C6_FlipMovesBothCounters ==
    OppositeVotes =>
        LET e1 == log[Len(log) - 1]
            e2 == log[Len(log)]
            d == Coll(e1.op)[e1.id]
            up2 == IF e2.voteType = "up" THEN 1 ELSE 0
        IN /\ e1.status = 200 /\ e2.status = 200
           /\ Cardinality({i \in 1..Len(d.votedBy) : d.votedBy[i].user = e1.user}) = 1
           /\ d.votedBy[FindVote(d.votedBy, e1.user)].voteType = e2.voteType
           /\ d.upvotes = e1.before.upvotes + up2
           /\ d.downvotes = e1.before.downvotes + (1 - up2)
           /\ e2.before.upvotes = e1.before.upvotes + (1 - up2)
           /\ e2.before.downvotes = e1.before.downvotes + up2
           /\ d.upvotes - e2.before.upvotes = 2 * up2 - 1
           /\ d.downvotes - e2.before.downvotes = 1 - 2 * up2
           /\ e2.upvotes = d.upvotes /\ e2.downvotes = d.downvotes

C6_Witness ==
    /\ OppositeVotes
    /\ log[Len(log)].status = 200
    /\ log[Len(log)].voteType = "down"

\* The condition under which a vote is to notify: the entity was found, the voter
\* had no record on it, the direction is up and the voter is not the owner.
FirstUpvoteOfOther(e) ==
    /\ e.found
    /\ ~HasRecord(e.before.votedBy, e.user)
    /\ e.voteType = "up"
    /\ e.before.owner # e.user

\* C7: a vote request creates a notification iff the voter had no record, voted up
\* and is not the owner; the notification is the upvote notification of the entity's
\* kind addressed to the owner; retractions and flips create none.
C7_UpvoteNotification ==
    /\ [](\A k \in 1..Len(log) :
            IsVote(log[k]) => (log[k].notified <=> FirstUpvoteOfOther(log[k])))
    /\ [][ notifications' # notifications =>
            \E i \in 1..Len(reqs) :
                /\ IsVote(reqs[i])
                /\ FirstUpvoteOfOther(reqs[i])
                /\ ~reqs[i].notified
                /\ reqs'[i].notified
                /\ notifications' = Append(notifications,
                      [userId |-> reqs[i].before.owner,
                       type |-> IF reqs[i].op = "voteThread"
                                THEN "thread_upvote" ELSE "comment_upvote",
                       fromUserId |-> reqs[i].user,
                       ref |-> reqs[i].id]) ]_vars

C7_Witness ==
    /\ Len(log) >= 2
    /\ IsVote(log[1]) /\ log[1].notified /\ log[1].status = 200
    /\ IsVote(log[2]) /\ log[2].kind = "retract" /\ log[2].status = 200
    /\ log[2].user = log[1].user /\ log[2].id = log[1].id
    /\ Len(notifications) = 1

\* C8: a vote on an entity that does not exist is answered 404, a vote whose
\* direction is neither 'up' nor 'down' on an existing entity 400; the request ends
\* with that response and no entity or notification is created or changed.
C8_VoteErrorsNoEffect ==
    [][ (started' = started + 1 /\ IsVote(Arrived)) =>
          LET r == Arrived
              missing == r.id \notin DOMAIN Coll(r.op)
              invalid == r.voteType \notin {"up", "down"}
          IN /\ missing => r.status = 404
             /\ (~missing /\ invalid) => r.status = 400
             /\ (~missing /\ ~invalid) => r.status = 0
             /\ (missing \/ invalid) =>
                    /\ r.pc = "done"
                    /\ Len(reqs') = Len(reqs)
                    /\ threads' = threads
                    /\ comments' = comments
                    /\ notifications' = notifications ]_vars

C8_Witness ==
    /\ Len(log) >= 2
    /\ log[1].status = 404 /\ log[1].voteType = "sideways"
    /\ log[2].status = 400

----------------------------------------------------------------------------
\* Properties of notifications and of the message pipeline

\* C9: no notification is addressed to the user whose action created it.
C9_NoSelfNotification ==
    \A k \in 1..Len(notifications) :
        notifications[k].userId # notifications[k].fromUserId

\* C10: a sendMessage request (that passed validation) whose receiver does not exist
\* is answered 404, and one whose receiver has notificationPrefs.chat = false is
\* answered 403; the request ends with that response, having persisted no Message,
\* created no Notification and pushed no event.
C10_ReceiverChecksFailFast ==
    /\ [](\A k \in 1..Len(log) :
            (log[k].op = "sendMessage" /\ log[k].status \in {404, 403}) =>
                (log[k].msg = 0 /\ ~log[k].notified))
    /\ [][ (started' = started + 1 /\ Arrived.op = "sendMessage"
                                   /\ ValidContent(Arrived.content)) =>
            LET r == Arrived
                missing == r.receiver \notin DOMAIN users
                refuses == ~missing /\ ~users[r.receiver].chat
            IN /\ missing => r.status = 404
               /\ refuses => r.status = 403
               /\ (~missing /\ ~refuses) => r.status = 0
               /\ (missing \/ refuses) =>
                      /\ r.pc = "done"
                      /\ Len(reqs') = Len(reqs)
                      /\ messages' = messages
                      /\ notifications' = notifications
                      /\ emitted' = emitted ]_vars

C10_Witness ==
    /\ Len(log) >= 2
    /\ log[1].op = "sendMessage" /\ log[1].status = 404
    /\ log[2].op = "sendMessage" /\ log[2].status = 403 /\ log[2].receiver = "u2"

----------------------------------------------------------------------------
\* Properties of the message pipeline

\* Whether a message with this id is stored.
Stored(id) == \E k \in 1..Len(messages) : messages[k].id = id

\* Whether a new_message notification for this message is stored.
Notified(id) ==
    \E k \in 1..Len(notifications) :
        notifications[k].type = "new_message" /\ notifications[k].ref = id

\* Whether a 'new-message' event carrying this message was emitted.
Pushed(id) == \E k \in 1..Len(emitted) : emitted[k].message = id

\* A sendMessage request that persisted its message and then failed in the
\* notification step.
FailedAfterPersist(e) == e.op = "sendMessage" /\ e.msg # 0 /\ e.status = 500

\* The i-th request in flight takes its step from pc a to pc b.
Steps(i, a, b) ==
    /\ Len(reqs') = Len(reqs)
    /\ reqs[i].pc = a
    /\ reqs'[i].pc = b

\* C11: a message whose notification step failed is still stored, and every
\* getMessages query that its sender or its receiver then makes for that
\* conversation returns it.
C11_FailedNotifyKeepsMessage ==
    [][ \A k \in 1..Len(log) :
          FailedAfterPersist(log[k]) =>
            /\ \E j \in 1..Len(messages') : messages'[j].id = log[k].msg
            /\ \A i \in 1..Len(reqs) :
                  ( /\ reqs[i].op = "getMessages"
                    /\ Steps(i, "query", "mark")
                    /\ {reqs[i].user, reqs[i].receiver} = {log[k].user, log[k].receiver} )
                  => log[k].msg \in reqs'[i].result ]_vars

\* A send by one user failed in its notification step, and the receiver's
\* getMessages that followed it returned the message.
C11_Witness ==
    /\ Len(log) = 2
    /\ FailedAfterPersist(log[1])
    /\ log[2].op = "getMessages" /\ log[2].status = 200
    /\ log[2].user = log[1].receiver /\ log[2].receiver = log[1].user
    /\ log[2].user # log[2].receiver
    /\ log[1].msg \in log[2].result

\* C12: every sendMessage request that persisted its message completes with 201,
\* and its push was attempted, whatever happened in the notification step.
C12_FailuresInvisible ==
    \A k \in 1..Len(log) :
        (log[k].op = "sendMessage" /\ log[k].msg # 0) =>
            /\ log[k].status = 201
            /\ Pushed(log[k].msg)

\* C13: the pipeline runs persist, then notification, then push: a notification
\* or a push exists only for a stored message, a push only after the notification,
\* and a request at a later step has done all the earlier ones and none of the
\* later ones.
C13_PersistNotifyPush ==
    /\ \A k \in 1..Len(notifications) :
          notifications[k].type = "new_message" => Stored(notifications[k].ref)
    /\ \A k \in 1..Len(emitted) :
          Stored(emitted[k].message) /\ Notified(emitted[k].message)
    /\ \A i \in 1..Len(reqs) :
          reqs[i].op = "sendMessage" =>
            /\ reqs[i].pc = "create" => reqs[i].msg = 0
            /\ reqs[i].pc = "notify" =>
                  Stored(reqs[i].msg) /\ ~Notified(reqs[i].msg) /\ ~Pushed(reqs[i].msg)
            /\ reqs[i].pc = "emit" =>
                  Stored(reqs[i].msg) /\ Notified(reqs[i].msg) /\ ~Pushed(reqs[i].msg)

\* A request completed the three steps while another, which failed the
\* receiver checks, produced nothing.
C13_Witness ==
    /\ \E k \in 1..Len(log) :
          /\ log[k].op = "sendMessage" /\ log[k].status = 201
          /\ Stored(log[k].msg) /\ Notified(log[k].msg) /\ Pushed(log[k].msg)
    /\ \E k \in 1..Len(log) :
          /\ log[k].op = "sendMessage" /\ log[k].status \in {403, 404}
          /\ log[k].msg = 0
    /\ Len(messages) = 1 /\ Len(notifications) = 1 /\ Len(emitted) = 1

----------------------------------------------------------------------------
\* Properties of the read flag and of deletion

\* The i-th request in flight completes in this step.
Finishes(i) == Len(reqs') = Len(reqs) - 1 /\ reqs' = RemoveAt(reqs, i)

\* C16: a step turns a message from unread to read only when it is the
\* updateMany of a getMessages request of the message's receiver for the
\* conversation with its sender, or the save of a markAsRead request of the
\* receiver for that message; a markAsRead request of anyone else for a stored
\* message is answered 404 on arrival and changes no message.
C16_OnlyReceiverReads ==
    /\ [][ \A k \in 1..Len(messages) :
             (~messages[k].read /\ messages'[k].read) =>
                \E i \in 1..Len(reqs) :
                    /\ reqs[i].user = messages[k].receiver
                    /\ \/ /\ reqs[i].op = "getMessages"
                          /\ reqs[i].receiver = messages[k].sender
                          /\ Steps(i, "mark", "count")
                       \/ /\ reqs[i].op = "markAsRead"
                          /\ reqs[i].msg = messages[k].id
                          /\ Finishes(i) ]_vars
    /\ [][ (started' = started + 1 /\ Arrived.op = "markAsRead"
                                   /\ Arrived.msg \in 1..Len(messages)) =>
             LET r == Arrived IN
             /\ r.user # messages[r.msg].receiver =>
                    /\ r.status = 404 /\ r.pc = "done"
                    /\ Len(reqs') = Len(reqs)
             /\ r.user = messages[r.msg].receiver => r.status = 0 /\ r.pc = "save"
             /\ messages' = messages ]_vars

\* The sender's markAsRead was answered 404 and left the message unread; the
\* receiver's markAsRead then marked it.
C16_Witness ==
    /\ Len(log) = 2
    /\ log[1].op = "markAsRead" /\ log[1].status = 404
    /\ log[1].msg = 1 /\ log[1].user = messages[1].sender
    /\ log[2].op = "markAsRead" /\ log[2].status = 200
    /\ log[2].msg = 1 /\ log[2].user = messages[1].receiver
    /\ messages[1].read /\ messages[1].readAt = 2
    /\ ~messages[2].read

\* Both parties of message m have completed a deleteMessage request on it: each
\* is in deletedBy (a completed delete has pushed its user unless the user was
\* there already) and no delete of it is in flight; when the two parties are one
\* user, that user has completed two such requests.
BothCompletedDelete(m) ==
    /\ ~PushesDeleter(m, m.sender)
    /\ ~PushesDeleter(m, m.receiver)
    /\ \A i \in 1..Len(reqs) : ~(reqs[i].op = "deleteMessage" /\ reqs[i].msg = m.id)
    /\ m.sender = m.receiver =>
          /\ Len(log) >= 2
          /\ \A j \in {Len(log) - 1, Len(log)} :
                /\ log[j].op = "deleteMessage" /\ log[j].status = 200
                /\ log[j].msg = m.id /\ log[j].user = m.sender

\* C17: a message on which both its sender and its receiver have completed a
\* deleteMessage request has isDeleted set and is in no result of getMessages or
\* getUnreadCount (nor of getConversations, which applies the same isDeleted filter).
C17_BothDeletedIsDeleted ==
    \A k \in 1..Len(messages) :
        BothCompletedDelete(messages[k])
        => /\ messages[k].isDeleted
           /\ messages[k].id \notin
                 Conversation(messages, messages[k].sender, messages[k].receiver)
           /\ messages[k].id \notin UnreadOf(messages, messages[k].receiver)

----------------------------------------------------------------------------
\* Properties of the realtime push

\* User u has no live connection.
NoLiveConnection(u) ==
    \A c \in 1..Len(conns) : conns[c].connected => conns[c].userId # u

\* C14: when sendMessage emits for a receiver who has no live connection, the
\* request completes with 201, its message is returned by the getMessages query
\* of the conversation, and the event reaches no connection of the receiver;
\* an event is handed over only in the step that emits it and only to sockets
\* that are in its room then, so it reaches no connection made later.
C14_EmptyRoomDrops ==
    /\ [][ \A i \in 1..Len(reqs) :
             ( /\ reqs[i].op = "sendMessage" /\ reqs[i].pc = "emit"
               /\ Finishes(i)
               /\ NoLiveConnection(reqs[i].receiver) )
             => /\ log'[Len(log')].status = 201
                /\ log'[Len(log')].msg = reqs[i].msg
                /\ reqs[i].msg \in Conversation(messages', reqs[i].user, reqs[i].receiver)
                /\ reqs[i].msg \in Conversation(messages', reqs[i].receiver, reqs[i].user)
                /\ \A d \in delivered' \ delivered :
                      conns[d.conn].userId # reqs[i].receiver ]_vars
    /\ [][ \A d \in delivered' \ delivered :
             /\ Len(emitted') = Len(emitted) + 1
             /\ d.event = Len(emitted')
             /\ d.conn \in 1..Len(conns)
             /\ conns[d.conn].connected
             /\ emitted'[d.event].room \in conns[d.conn].rooms ]_vars

\* A send to a user completed with 201 while no connection had ever been made:
\* its event was emitted and handed to nobody, and its message is stored.
C14_Witness ==
    /\ conns = <<>>
    /\ delivered = {}
    /\ \E k \in 1..Len(log) :
          /\ log[k].op = "sendMessage" /\ log[k].status = 201
          /\ log[k].user # log[k].receiver
          /\ Pushed(log[k].msg)
          /\ log[k].msg \in Conversation(messages, log[k].receiver, log[k].user)

\* C15: when sendMessage emits the event of a message for user U, every
\* connection of U that is live at that moment receives it.
C15_ConnectionReceivesPushes ==
    [][ \A i \in 1..Len(reqs) :
          ( /\ reqs[i].op = "sendMessage" /\ reqs[i].pc = "emit"
            /\ Finishes(i) )
          => \A c \in 1..Len(conns) :
                (conns[c].connected /\ conns[c].userId = reqs[i].receiver)
                => [conn |-> c, event |-> Len(emitted')] \in delivered' ]_vars

\* C20: every 'new-message' event emitted, by the REST handler or by the
\* 'send-message' listener, is the event of a stored Message for which a
\* new_message Notification exists.
C20_SocketSendMirrorsRest ==
    \A k \in 1..Len(emitted) :
        Stored(emitted[k].message) /\ Notified(emitted[k].message)

----------------------------------------------------------------------------
\* Properties of the notifications of createComment

\* The stored notifications of one type, to one user, about one comment.
NotificationsOf(types, userId, cid) ==
    {k \in 1..Len(notifications) :
        /\ notifications[k].type \in types
        /\ notifications[k].userId = userId
        /\ notifications[k].ref = cid}

\* Whether the list of mentions holds the id.
Mentions(mentions, u) == \E j \in 1..Len(mentions) : mentions[j] = u

\* A completed createComment request that created its comment.
Commented(e) == e.op = "createComment" /\ e.status = 201

\* C18: a createComment request whose thread and parent exist completes with
\* 201 whatever its mentions are, and for its comment there is exactly one
\* comment_mention notification to each existing user other than the commenter
\* that the list mentions, however often, and none to anyone else.
C18_OneMentionNotificationEach ==
    \A k \in 1..Len(log) :
        /\ ( /\ log[k].op = "createComment"
             /\ log[k].id \in DOMAIN threads
             /\ log[k].parentId \in {"none"} \cup DOMAIN comments )
           => log[k].status = 201
        /\ Commented(log[k]) =>
              \A u \in UserIds \cup {NoUser} :
                  Cardinality(NotificationsOf({"comment_mention"}, u, log[k].cid))
                    = IF /\ Mentions(log[k].mentions, u)
                         /\ u \in DOMAIN users
                         /\ u # log[k].user
                      THEN 1 ELSE 0

\* 1 when the condition holds, 0 otherwise.
Count(b) == IF b THEN 1 ELSE 0

\* C19: for the comment of a completed createComment request the reply
\* notifications (thread_reply, comment_reply) are: for a top-level comment, one
\* thread_reply to the thread's owner; for a nested reply, one comment_reply to
\* the parent comment's owner and, when the thread's owner is another user than
\* the parent's owner, one to the thread's owner; none of them to the commenter,
\* and no other.
C19_ReplyNotificationsRouted ==
    \A k \in 1..Len(log) :
        Commented(log[k]) =>
            LET e == log[k]
                replyTypes == {"thread_reply", "comment_reply"}
                T == threads[e.id].owner
                replies == UNION {NotificationsOf(replyTypes, u, e.cid) : u \in UserIds}
            IN IF e.parentId = "none"
               THEN /\ Cardinality(NotificationsOf({"thread_reply"}, T, e.cid))
                          = Count(T # e.user)
                    /\ Cardinality(replies) = Count(T # e.user)
               ELSE LET P == comments[e.parentId].owner IN
                    /\ Cardinality(NotificationsOf({"comment_reply"}, P, e.cid))
                          = Count(P # e.user)
                    /\ (T # P /\ T # e.user) =>
                          Cardinality(NotificationsOf(replyTypes, T, e.cid)) = 1
                    /\ Cardinality(replies)
                          = Count(P # e.user) + Count(T # P /\ T # e.user)

----------------------------------------------------------------------------
\* Properties of rooms

\* A connection's set of rooms changes in this step while it stays connected:
\* the step handles its 'join-room' or its 'leave-room'.
RoomsChange ==
    /\ Len(conns') = Len(conns)
    /\ \E c \in 1..Len(conns) :
          /\ conns[c].connected /\ conns'[c].connected
          /\ conns'[c].rooms # conns[c].rooms

\* C21: a step that handles 'join-room' or 'leave-room' leaves unchanged, for
\* every user, the set of connections that a push addressed to that user reaches.
C21_RoomsIndependentOfUserGroup ==
    [][ RoomsChange =>
          \A u \in UserIds : InRoom(UserRoom(u))' = InRoom(UserRoom(u)) ]_vars

\* C28: every 'new-message' event that a connection received was addressed to
\* the user the connection is authenticated as.
C28_NoForeignPush ==
    \A d \in delivered :
        emitted[d.event].room = UserRoom(conns[d.conn].userId)

----------------------------------------------------------------------------
\* Frame of a vote

\* The vote records of the users other than u, in their stored order.
OtherVotes(votedBy, u) == SelectSeq(votedBy, LAMBDA r : r.user # u)

\* The step changes of the collection only document id, and of that document
\* only the counters and the vote records of user u.
OnlyVoteOf(coll, collNext, id, u) ==
    /\ DOMAIN collNext = DOMAIN coll
    /\ \A d \in DOMAIN coll : d # id => collNext[d] = coll[d]
    /\ id \in DOMAIN coll =>
          /\ OtherVotes(collNext[id].votedBy, u) = OtherVotes(coll[id].votedBy, u)
          /\ collNext[id].owner = coll[id].owner

\* C22: the save of a vote request of user U on entity E leaves every other
\* thread and comment as it was and, of E, the vote records of every user other
\* than U.
C22_VoteFrame ==
    [][ \A i \in 1..Len(reqs) :
              (IsVote(reqs[i]) /\ reqs[i].pc = "save" /\ Finishes(i))
              => IF reqs[i].op = "voteThread"
                 THEN /\ comments' = comments
                      /\ OnlyVoteOf(threads, threads', reqs[i].id, reqs[i].user)
                 ELSE /\ threads' = threads
                      /\ OnlyVoteOf(comments, comments', reqs[i].id, reqs[i].user) ]_vars

\* C26: the upvotes and downvotes counters of every thread and comment are at
\* least 0.
C26_CountersNonNegative ==
    \A d \in StoredDocs : d.upvotes >= 0 /\ d.downvotes >= 0
\* C23: a vote whose save meets a version conflict is not answered with an
\* error at that first conflict (it would be retried and applied instead).
C23_ConflictRetried ==
    [][ \A i \in 1..Len(reqs) :
          ( /\ IsVote(reqs[i]) /\ reqs[i].pc = "save"
            /\ SaveFails(Coll(reqs[i].op), reqs[i])
            /\ Finishes(i) )
          => log'[Len(log')].status # 500 ]_vars

\* C24: once U is in the deletedBy list of message M, a getMessages query of U
\* does not return M.
C24_DeletionHidesLocally ==
    [][ \A i \in 1..Len(reqs) :
          ( /\ reqs[i].op = "getMessages" /\ reqs[i].pc = "query"
            /\ Len(reqs') = Len(reqs) /\ reqs'[i].pc = "mark" )
          => \A k \in 1..Len(messages) :
                ~PushesDeleter(messages[k], reqs[i].user)
                => messages[k].id \notin reqs'[i].result ]_vars

\* C27: isDeleted is set only when both the sender and the receiver are in
\* deletedBy, and deletedBy holds only the sender and the receiver, each at
\* most once.
C27_DeletedByWellFormed ==
    \A k \in 1..Len(messages) :
        LET m == messages[k]
        IN /\ m.isDeleted => ~PushesDeleter(m, m.sender) /\ ~PushesDeleter(m, m.receiver)
           /\ \A a, b \in 1..Len(m.deletedBy) : a # b => m.deletedBy[a] # m.deletedBy[b]
           /\ \A a \in 1..Len(m.deletedBy) : m.deletedBy[a] \in {m.sender, m.receiver}

\* C25: a completed vote request that created an upvote notification was
\* answered 200, that is, its vote was saved.
C25_NotificationOnlyForSavedVote ==
    \A k \in 1..Len(log) :
        (IsVote(log[k]) /\ log[k].notified) => log[k].status = 200

\* The comments stored with threadId t.
CommentsOf(t) == {c \in DOMAIN comments : comments[c].threadId = t}

\* No createComment, deleteComment or deleteThread request is in flight.
TreeQuiet ==
    \A i \in 1..Len(reqs) : reqs[i].op \notin {"createComment", "deleteComment", "deleteThread"}

\* C29: when no comment or thread request is in flight, every thread's
\* commentsCount is the number of stored comments with its threadId.
C29_CommentsCountMatches ==
    TreeQuiet => \A t \in DOMAIN threads :
                    threads[t].commentsCount = Cardinality(CommentsOf(t))

\* C30: every stored thread references a stored category.
C30_NoThreadInDeletedCategory ==
    \A t \in DOMAIN threads : threads[t].category \in DOMAIN categories

====
